---- MODULE Spec2Model ----
(***************************************************************************)
(* Discrete boundary operators of bempp.api.assembly                       *)
(* (discrete_boundary_operator.py): the operator classes, their            *)
(* combinators, dense materialisation and the sparse (pseudo-)inverse.     *)
(*                                                                         *)
(* Numbers are exact Gaussian integers <<re, im>>; an array carries its    *)
(* class (ndarray, matrix, csc, or the bound method an un-propertied A     *)
(* yields), its dtype, its shape and its entries.  The heap ops holds the  *)
(* operator objects built so far; composite nodes hold heap indices.       *)
(***************************************************************************)
EXTENDS Integers, Sequences, FiniteSets, TLC

VARIABLES ops, out, nfact, has_pardiso

vars == <<ops, out, nfact, has_pardiso>>

\* Largest number of operator objects on the heap, per specification.
MaxOps == 3
MaxDag == 2
MaxInv == 2

None == <<>>

(***************************************************************************)
(* Exact complex arithmetic.                                               *)
(***************************************************************************)
CZero == <<0, 0>>
COne == <<1, 0>>
CAdd(a, b) == <<a[1] + b[1], a[2] + b[2]>>
CNeg(a) == <<0 - a[1], 0 - a[2]>>
CMul(a, b) == <<a[1] * b[1] - a[2] * b[2], a[1] * b[2] + a[2] * b[1]>>
CConj(a) == <<a[1], 0 - a[2]>>
CReal(a) == <<a[1], 0>>
CImag(a) == <<a[2], 0>>
CI == <<0, 1>>

RECURSIVE SumSeq(_)
SumSeq(s) == IF s = <<>> THEN CZero ELSE CAdd(Head(s), SumSeq(Tail(s)))

Max(a, b) == IF a >= b THEN a ELSE b

\* F applied to the value of e, with e evaluated once.
Let(e, F(_)) == CHOOSE y \in {F(r) : r \in {e}} : TRUE

(***************************************************************************)
(* dtypes and numpy's promotion rules.                                     *)
(***************************************************************************)
DTypes == {"float32", "float64", "complex64", "complex128"}

IsComplexDType(d) == d \in {"complex64", "complex128"}
IsDouble(d) == d \in {"float64", "complex128"}
RealOf(d) == IF IsDouble(d) THEN "float64" ELSE "float32"
MkDType(cx, dbl) ==
    IF cx THEN (IF dbl THEN "complex128" ELSE "complex64")
          ELSE (IF dbl THEN "float64" ELSE "float32")

\* Result dtype of arithmetic between two arrays (or an array and a typed
\* numpy scalar of no wider kind/precision than shown here).
ResultType(d1, d2) ==
    MkDType(IsComplexDType(d1) \/ IsComplexDType(d2), IsDouble(d1) \/ IsDouble(d2))

\* Result dtype of array * Python scalar: a Python scalar can change the
\* kind (real -> complex) but never the precision of the array.
PyScalars == {"int", "float", "complex"}
ArrMulPy(d, py) == MkDType(IsComplexDType(d) \/ py = "complex", IsDouble(d))

\* numpy.find_common_type([d1, d2], [])
FindCommonTypeArrays(d1, d2) == ResultType(d1, d2)

\* numpy.find_common_type([d], [type(alpha)]): a scalar of the same or a
\* lower kind leaves the array type; a complex scalar with a real array
\* coerces to dtype(complex) = complex128.
FindCommonTypeScalar(d, py) ==
    IF py = "complex" /\ ~IsComplexDType(d) THEN "complex128" ELSE d

(***************************************************************************)
(* Arrays.  cls: "ndarray" (numpy array), "matrix" (numpy.matrix, what     *)
(* todense() returns), "csc" (scipy sparse), "scalar0" (the 0-d value of   *)
(* a 1-D @ 1-D product) and "method" (a bound method read as A).           *)
(* v holds the rows of a 2-D array, the entries of a 1-D array.            *)
(***************************************************************************)
Arr(cls, dt, shape, v) == [cls |-> cls, dt |-> dt, shape |-> shape, v |-> v]
NDArray(dt, v) == Arr("ndarray", dt, <<Len(v), Len(v[1])>>, v)
Vec(dt, v) == Arr("ndarray", dt, <<Len(v)>>, v)
Csc(dt, v) == Arr("csc", dt, <<Len(v), Len(v[1])>>, v)
BoundMethod == Arr("method", "float64", <<>>, <<>>)

Ok(val) == [st |-> "ok", val |-> val, err |-> ""]
Raise(e) == [st |-> "raise", val |-> None, err |-> e]

NDim(a) == Len(a.shape)
IsNdarray(a) == a.cls \in {"ndarray", "matrix"}

\* Rows of an array read as 2-D (a 1-D array is one row).
Rows2(a) == IF NDim(a) = 1 THEN <<a.v>> ELSE a.v
Shape2(a) == IF NDim(a) = 1 THEN <<1, a.shape[1]>> ELSE a.shape

MapArr(a, dt, F(_)) ==
    IF NDim(a) = 0 THEN Arr(a.cls, dt, a.shape, F(a.v))
    ELSE IF NDim(a) = 1
         THEN Arr(a.cls, dt, a.shape, [j \in 1..Len(a.v) |-> F(a.v[j])])
         ELSE Arr(a.cls, dt, a.shape,
                  [i \in 1..Len(a.v) |-> [j \in 1..Len(a.v[i]) |-> F(a.v[i][j])]])

\* -a
ArrNeg(a) == MapArr(a, a.dt, CNeg)
\* a.conjugate()
ArrConj(a) == MapArr(a, a.dt, CConj)
\* a * alpha for a Python scalar alpha = [py, v]
ArrScalePy(a, alpha) ==
    MapArr(a, ArrMulPy(a.dt, alpha.py), LAMBDA z : CMul(z, alpha.v))
\* a * numpy.dtype(sd).type(alpha)
ArrScaleNp(a, sd, alpha) ==
    MapArr(a, ResultType(a.dt, sd), LAMBDA z : CMul(z, alpha.v))
\* a.T / a.transpose() of a 2-D array
ArrT(a) ==
    Arr(a.cls, a.dt, <<a.shape[2], a.shape[1]>>,
        [j \in 1..a.shape[2] |-> [i \in 1..a.shape[1] |-> a.v[i][j]]])
\* sparse.todense()
ToDenseMatrix(a) == Arr("matrix", a.dt, a.shape, a.v)

\* numpy broadcasting of two shapes read as 2-D
BroadcastOK(s1, s2) == \A k \in 1..2 : s1[k] = s2[k] \/ s1[k] = 1 \/ s2[k] = 1
At(rows, s, i, j) == rows[IF s[1] = 1 THEN 1 ELSE i][IF s[2] = 1 THEN 1 ELSE j]

\* a + b for numpy arrays / matrices (elementwise, with broadcasting)
NumpyAdd(a, b) ==
    LET sa == Shape2(a)
        sb == Shape2(b)
        m == Max(sa[1], sb[1])
        n == Max(sa[2], sb[2])
        dt == ResultType(a.dt, b.dt)
        rows == [i \in 1..m |-> [j \in 1..n |->
                    CAdd(At(Rows2(a), sa, i, j), At(Rows2(b), sb, i, j))]]
        isMat == a.cls = "matrix" \/ b.cls = "matrix"
    IN IF ~BroadcastOK(sa, sb)
       THEN Raise("ValueError: operands could not be broadcast together with shapes")
       ELSE IF NDim(a) = 1 /\ NDim(b) = 1 /\ ~isMat
            THEN Ok(Arr("ndarray", dt, <<n>>, rows[1]))
            ELSE Ok(Arr(IF isMat THEN "matrix" ELSE "ndarray", dt, <<m, n>>, rows))

\* elementwise a * b of two 1-D arrays (values * x.ravel())
NumpyMul1(a, b) ==
    LET sa == Shape2(a)
        sb == Shape2(b)
        n == Max(sa[2], sb[2])
    IN IF ~BroadcastOK(sa, sb)
       THEN Raise("ValueError: operands could not be broadcast together with shapes")
       ELSE Ok(Arr("ndarray", ResultType(a.dt, b.dt), <<n>>,
                   [j \in 1..n |-> CMul(At(Rows2(a), sa, 1, j), At(Rows2(b), sb, 1, j))]))

\* exact products
MatVec(rows, x) ==
    [i \in 1..Len(rows) |-> SumSeq([j \in 1..Len(x) |-> CMul(rows[i][j], x[j])])]
MatMat(ra, rb) ==
    [i \in 1..Len(ra) |-> [j \in 1..Len(rb[1]) |->
        SumSeq([l \in 1..Len(rb) |-> CMul(ra[i][l], rb[l][j])])]]
Col(rows, j) == [i \in 1..Len(rows) |-> rows[i][j]]
FromCols(cols, m) == [i \in 1..m |-> [j \in 1..Len(cols) |-> cols[j][i]]]
Eye(n) == NDArray("float64", [i \in 1..n |-> [j \in 1..n |-> IF i = j THEN COne ELSE CZero]])

\* a.dot(b) / a @ b for numpy arrays and matrices of 1 or 2 dimensions
NumpyMatmul(a, b) ==
    LET dt == ResultType(a.dt, b.dt)
        isMat == a.cls = "matrix" \/ b.cls = "matrix"
        inner == IF NDim(a) = 1 THEN a.shape[1] ELSE a.shape[2]
        binner == b.shape[1]
        prod == MatMat(Rows2(a), IF NDim(b) = 1 THEN FromCols(<<b.v>>, Len(b.v)) ELSE b.v)
    IN IF inner # binner
       THEN Raise("ValueError: shapes not aligned (both shapes named)")
       ELSE IF NDim(a) = 2 /\ NDim(b) = 2
            THEN Ok(Arr(IF isMat THEN "matrix" ELSE "ndarray", dt,
                        <<a.shape[1], b.shape[2]>>, prod))
       ELSE IF NDim(a) = 1 /\ NDim(b) = 2
            THEN (IF isMat THEN Ok(Arr("matrix", dt, <<1, b.shape[2]>>, prod))
                           ELSE Ok(Arr("ndarray", dt, <<b.shape[2]>>, prod[1])))
       ELSE IF NDim(a) = 2 /\ NDim(b) = 1
            THEN (IF isMat THEN Ok(Arr("matrix", dt, <<1, a.shape[1]>>, <<Col(prod, 1)>>))
                           ELSE Ok(Arr("ndarray", dt, <<a.shape[1]>>, Col(prod, 1))))
       ELSE Ok(Arr("scalar0", dt, <<>>, prod[1][1]))

\* a + b for two scipy sparse matrices
SparseAdd(a, b) ==
    IF a.shape # b.shape THEN Raise("ValueError: inconsistent shapes")
    ELSE Ok(Arr("csc", ResultType(a.dt, b.dt), a.shape,
                [i \in 1..a.shape[1] |-> [j \in 1..a.shape[2] |-> CAdd(a.v[i][j], b.v[i][j])]]))

\* a * b / a @ b for two scipy sparse matrices
SparseMatmul(a, b) ==
    IF a.shape[2] # b.shape[1] THEN Raise("ValueError: dimension mismatch")
    ELSE Ok(Arr("csc", ResultType(a.dt, b.dt), <<a.shape[1], b.shape[2]>>, MatMat(a.v, b.v)))

(***************************************************************************)
(* Operator objects.  impl is _impl / _values / _column / the evaluator's  *)
(* matrix / the _Solver; op1, op2 are heap indices of the operands; alpha  *)
(* is the Python scalar [py, v]; row is _row (for an inverse built from a  *)
(* raw csc matrix, the matrix kept as _operator).                          *)
(***************************************************************************)
Node(kind, dtype, shape, impl, op1, op2, alpha, row) ==
    [kind |-> kind, dtype |-> dtype, shape |-> shape, impl |-> impl,
     op1 |-> op1, op2 |-> op2, alpha |-> alpha, row |-> row]

\* isinstance(x, _DiscreteOperatorBase); the two other kinds are scipy's own
\* _TransposedLinearOperator / _AdjointLinearOperator wrappers.
IsDiscrete(n) == n.kind \notin {"ScipyT", "ScipyH"}

PyScalar(py, v) == [py |-> py, v |-> v]
MinusOne == PyScalar("int", <<0 - 1, 0>>)

\* Outcome of an operation on heap h: the heap after it, "ok" with the
\* heap index of the returned operator, or "raise" with the exception.
Alloc(h, node) == [h |-> Append(h, node), st |-> "ok", ref |-> Len(h) + 1, err |-> ""]
Same(h, i) == [h |-> h, st |-> "ok", ref |-> i, err |-> ""]
Fail(h, e) == [h |-> h, st |-> "raise", ref |-> 0, err |-> e]

DenseDiscreteBoundaryOperator(impl) ==
    Node("Dense", impl.dt, impl.shape, impl, 0, 0, None, None)

SparseDiscreteBoundaryOperator(impl) ==
    Node("Sparse", impl.dt, impl.shape, impl, 0, 0, None, None)

\* shape = None is written <<>>
DiagonalOperator(values, shape) ==
    Node("Diagonal", values.dt,
         IF shape = <<>> THEN <<Len(values.v), Len(values.v)>> ELSE shape,
         values, 0, 0, None, None)

ZeroDiscreteBoundaryOperator(rows, columns) ==
    Node("Zero", "float64", <<rows, columns>>, None, 0, 0, None, None)

DiscreteRankOneOperator(column, row) ==
    Node("RankOne",
         IF row.dt = "complex128" \/ column.dt = "complex128" THEN "complex128" ELSE "float64",
         <<Len(column.v), Len(row.v)>>, column, 0, 0, None, row)

\* evaluator = [dtype, shape, mat]
GenericDiscreteBoundaryOperator(evaluator) ==
    Node("Generic", evaluator.dt, evaluator.shape, evaluator, 0, 0, None, None)

ScaledDiscreteOperator(h, i, alpha) ==
    Alloc(h, Node("Scaled", FindCommonTypeScalar(h[i].dtype, alpha.py), h[i].shape,
                  None, i, 0, alpha, None))

SumDiscreteOperator(h, i, j) ==
    IF h[i].shape # h[j].shape
    THEN Fail(h, "ValueError: Operators have incompatible shapes s1 != s2")
    ELSE Alloc(h, Node("Sum", FindCommonTypeArrays(h[i].dtype, h[j].dtype), h[i].shape,
                       None, i, j, None, None))

ProductDiscreteOperator(h, i, j) ==
    IF h[i].shape[2] # h[j].shape[1]
    THEN Fail(h, "ValueError: Incompatible dimensions shapes for multiplication with s1 and s2")
    ELSE Alloc(h, Node("Product", FindCommonTypeArrays(h[i].dtype, h[j].dtype),
                       <<h[i].shape[1], h[j].shape[2]>>, None, i, j, None, None))

\* Wrap the array an arithmetic step returned, or pass its exception on.
Wrap(h, r0, Ctor(_)) ==
    Let(r0, LAMBDA r : IF r.st = "ok" THEN Alloc(h, Ctor(r.val)) ELSE Fail(h, r.err))
DiagonalSquare(values) == DiagonalOperator(values, <<>>)

(***************************************************************************)
(* Combinators, dispatched on the class of the left operand.               *)
(***************************************************************************)
\* _DiscreteOperatorBase.__add__
BaseAdd(h, i, j) == SumDiscreteOperator(h, i, j)

\* type(h[i]).__add__(h[i], h[j])
OpAdd(h, i, j) ==
    CASE h[i].kind = "Dense" ->
            IF h[j].kind = "Dense"
            THEN Wrap(h, NumpyAdd(h[i].impl, h[j].impl), DenseDiscreteBoundaryOperator)
            ELSE BaseAdd(h, i, j)
      [] h[i].kind = "Diagonal" ->
            IF h[i].shape # h[j].shape
            THEN Fail(h, "ValueError: Incompatible dimensions: s1 != s2")
            ELSE IF h[j].kind = "Diagonal"
                 THEN Wrap(h, NumpyAdd(h[i].impl, h[j].impl), DiagonalSquare)
                 ELSE BaseAdd(h, i, j)
      [] h[i].kind = "Sparse" ->
            IF h[j].kind = "Sparse"
            THEN Wrap(h, SparseAdd(h[i].impl, h[j].impl), SparseDiscreteBoundaryOperator)
            ELSE BaseAdd(h, i, j)
      [] OTHER -> BaseAdd(h, i, j)

\* A __neg__ that no class overrides: every operand gets the base class's
\* Scaled node.
OpNegBaseOnly(h, i) == ScaledDiscreteOperator(h, i, MinusOne)

\* type(h[i]).__neg__(h[i])
OpNeg(h, i) ==
    CASE h[i].kind = "Dense" -> Alloc(h, DenseDiscreteBoundaryOperator(ArrNeg(h[i].impl)))
      [] h[i].kind = "Diagonal" -> Alloc(h, DiagonalSquare(ArrNeg(h[i].impl)))
      [] h[i].kind = "Sparse" -> Alloc(h, SparseDiscreteBoundaryOperator(ArrNeg(h[i].impl)))
      [] OTHER -> ScaledDiscreteOperator(h, i, MinusOne)

\* _DiscreteOperatorBase.__sub__: self.__add__(self, -other).  -other is
\* built and dropped; the bound method __add__ then gets two arguments.
OpSub(h, i, j) ==
    LET neg == OpNeg(h, j)
    IN Fail(h, "TypeError: __add__() takes 2 positional arguments but 3 were given")

\* _DiscreteOperatorBase.dot with an operator / with a scalar
BaseDotOp(h, i, j) == ProductDiscreteOperator(h, i, j)
BaseDotScalar(h, i, alpha) == ScaledDiscreteOperator(h, i, alpha)

\* type(h[i]).dot(h[i], h[j])
OpDot(h, i, j) ==
    CASE h[i].kind = "Dense" ->
            IF h[j].kind = "Dense"
            THEN Wrap(h, NumpyMatmul(h[i].impl, h[j].impl), DenseDiscreteBoundaryOperator)
            ELSE BaseDotOp(h, i, j)
      [] OTHER -> BaseDotOp(h, i, j)

\* type(h[i]).__mul__(h[i], h[j])
OpMul(h, i, j) ==
    CASE h[i].kind = "Sparse" ->
            IF h[j].kind = "Sparse"
            THEN Wrap(h, SparseMatmul(h[i].impl, h[j].impl), SparseDiscreteBoundaryOperator)
            ELSE OpDot(h, i, j)
      [] OTHER -> OpDot(h, i, j)

\* The narrow-precision branch shared by Dense.dot and Diagonal.dot.
NarrowScale(a, alpha) ==
    IF a.dt \in {"float32", "complex64"}
    THEN IF alpha.py = "complex"
         THEN ArrScaleNp(a, "complex64", alpha)
         ELSE ArrScaleNp(a, "float32", alpha)
    ELSE ArrScalePy(a, alpha)

\* type(h[i]).dot(h[i], alpha), also reached by h[i] * alpha
OpDotScalar(h, i, alpha) ==
    CASE h[i].kind = "Dense" ->
            Alloc(h, DenseDiscreteBoundaryOperator(NarrowScale(h[i].impl, alpha)))
      [] h[i].kind = "Diagonal" -> Alloc(h, DiagonalSquare(NarrowScale(h[i].impl, alpha)))
      [] h[i].kind = "Sparse" ->
            Alloc(h, SparseDiscreteBoundaryOperator(ArrScalePy(h[i].impl, alpha)))
      [] OTHER -> BaseDotScalar(h, i, alpha)

\* type(h[i]).__rmul__(h[i], alpha): alpha * h[i]
OpRMul(h, i, alpha) ==
    CASE h[i].kind = "Dense" ->
            Alloc(h, DenseDiscreteBoundaryOperator(ArrScalePy(h[i].impl, alpha)))
      [] h[i].kind = "Diagonal" -> Alloc(h, DiagonalSquare(ArrScalePy(h[i].impl, alpha)))
      [] h[i].kind = "Sparse" ->
            Alloc(h, SparseDiscreteBoundaryOperator(ArrScalePy(h[i].impl, alpha)))
      [] OTHER -> ScaledDiscreteOperator(h, i, alpha)

\* scipy's LinearOperator._transpose / ._adjoint, used by every class that
\* does not override them
ScipyTransposed(h, i) ==
    Alloc(h, Node("ScipyT", h[i].dtype, <<h[i].shape[2], h[i].shape[1]>>,
                  None, i, 0, None, None))
ScipyAdjoint(h, i) ==
    Alloc(h, Node("ScipyH", h[i].dtype, <<h[i].shape[2], h[i].shape[1]>>,
                  None, i, 0, None, None))

\* h[i].transpose()
OpTranspose(h, i) ==
    CASE h[i].kind = "Dense" -> Alloc(h, DenseDiscreteBoundaryOperator(ArrT(h[i].impl)))
      [] h[i].kind = "Diagonal" -> Same(h, i)
      [] h[i].kind = "Sparse" -> Alloc(h, SparseDiscreteBoundaryOperator(ArrT(h[i].impl)))
      [] OTHER -> ScipyTransposed(h, i)

\* h[i].adjoint()
OpAdjoint(h, i) ==
    CASE h[i].kind = "Dense" ->
            Alloc(h, DenseDiscreteBoundaryOperator(ArrT(ArrConj(h[i].impl))))
      [] h[i].kind = "Diagonal" -> Alloc(h, DiagonalSquare(ArrConj(h[i].impl)))
      [] h[i].kind = "Sparse" ->
            Alloc(h, SparseDiscreteBoundaryOperator(ArrConj(ArrT(h[i].impl))))
      [] h[i].kind = "RankOne" ->
            Alloc(h, DiscreteRankOneOperator(ArrConj(h[i].row), ArrConj(h[i].impl)))
      [] OTHER -> ScipyAdjoint(h, i)

(***************************************************************************)
(* Applying an operator to a vector.  An outcome carries leak: whether a   *)
(* real kernel (array product, sparse product, evaluator, factorization    *)
(* solve) was handed a complex vector on the way.                          *)
(***************************************************************************)
AOk(v, leak) == [st |-> "ok", val |-> v, err |-> "", leak |-> leak]
ARaise(e, leak) == [st |-> "raise", val |-> None, err |-> e, leak |-> leak]
ALift(r0, leak) ==
    Let(r0, LAMBDA r : IF r.st = "ok" THEN AOk(r.val, leak) ELSE ARaise(r.err, leak))

IsComplexObj(x) == IsComplexDType(x.dt)
\* numpy.real(x), numpy.imag(x), x.astype(d), x.conj()
VReal(x) == Vec(RealOf(x.dt), [k \in 1..Len(x.v) |-> CReal(x.v[k])])
VImag(x) == Vec(RealOf(x.dt), [k \in 1..Len(x.v) |-> CImag(x.v[k])])
AsType(x, d) ==
    Vec(d, IF IsComplexDType(d) THEN x.v ELSE [k \in 1..Len(x.v) |-> CReal(x.v[k])])
VConj(x) == Vec(x.dt, [k \in 1..Len(x.v) |-> CConj(x.v[k])])

KernelLeak(kdt, arg) == ~IsComplexDType(kdt) /\ IsComplexObj(arg)

\* re + 1j * im, evaluated left to right
Recombine(re0, im0) ==
    Let(re0, LAMBDA re :
        IF re.st # "ok" THEN re
        ELSE Let(im0, LAMBDA im :
            IF im.st # "ok" THEN ARaise(im.err, re.leak \/ im.leak)
            ELSE AOk(Vec(ResultType(re.val.dt, ArrMulPy(im.val.dt, "complex")),
                         [k \in 1..Len(re.val.v) |->
                              CAdd(re.val.v[k], CMul(CI, im.val.v[k]))]),
                     re.leak \/ im.leak)))

\* the kernels: numpy's A.dot(v), scipy's sparse A * v, evaluator.matvec(v)
ProductKernel(a, arg) ==
    AOk(Vec(ResultType(a.dt, arg.dt), MatVec(a.v, arg.v)), KernelLeak(a.dt, arg))

\* DenseDiscreteBoundaryOperator._matmat
DenseMatvec(n, x) ==
    IF IsComplexObj(x) /\ ~IsComplexDType(n.impl.dt)
    THEN Recombine(ProductKernel(n.impl, AsType(VReal(x), n.dtype)),
                   ProductKernel(n.impl, AsType(VImag(x), n.dtype)))
    ELSE ProductKernel(n.impl, AsType(x, n.dtype))

\* SparseDiscreteBoundaryOperator._matmat
SparseMatvec(n, x) ==
    IF n.dtype = "float64" /\ IsComplexObj(x)
    THEN Recombine(ProductKernel(n.impl, VReal(x)), ProductKernel(n.impl, VImag(x)))
    ELSE ProductKernel(n.impl, x)

\* GenericDiscreteBoundaryOperator._matvec
GenericMatvec(n, x) ==
    IF IsComplexDType(n.dtype) THEN ProductKernel(n.impl, x)
    ELSE IF IsComplexObj(x)
         THEN Recombine(ProductKernel(n.impl, VReal(x)), ProductKernel(n.impl, VImag(x)))
         ELSE ProductKernel(n.impl, x)

\* DiagonalOperator._matvec
DiagonalMatvec(n, x) ==
    Let(NumpyMul1(n.impl, x), LAMBDA y :
        IF y.st = "ok" /\ Len(y.val.v) # Len(x.v)
        THEN ARaise("ValueError: cannot reshape array", FALSE)
        ELSE ALift(y, FALSE))

\* ZeroDiscreteBoundaryOperator._matmat
ZeroMatvec(n, x) == AOk(Vec("float64", [k \in 1..n.shape[1] |-> CZero]), FALSE)

\* DiscreteRankOneOperator._matvec
RankOneMatvec(n, x) ==
    LET d == SumSeq([j \in 1..Len(x.v) |-> CMul(n.row.v[j], x.v[j])])
    IN AOk(Vec(ResultType(n.impl.dt, ResultType(n.row.dt, x.dt)),
               [k \in 1..Len(n.impl.v) |-> CMul(n.impl.v[k], d)]), FALSE)

(***************************************************************************)
(* _Solver.  A factorization is [mat, dt, backend]; the sample matrices    *)
(* have unit determinant, so its exact solve stays in the Gaussian         *)
(* integers.  A real factorization has no complex arithmetic: handed a     *)
(* complex right-hand side it refuses the cast.                            *)
(***************************************************************************)
Det(rows) ==
    IF Len(rows) = 1 THEN rows[1][1]
    ELSE CAdd(CMul(rows[1][1], rows[2][2]), CNeg(CMul(rows[1][2], rows[2][1])))

CDivExact(z, d) ==
    LET n2 == d[1] * d[1] + d[2] * d[2]
        w == CMul(z, CConj(d))
        Q(a) == IF a >= 0 THEN a \div n2 ELSE 0 - ((0 - a) \div n2)
    IN <<Q(w[1]), Q(w[2])>>

ExactSolve(rows, b) ==
    LET d == Det(rows)
    IN IF Len(rows) = 1 THEN <<CDivExact(b[1], d)>>
       ELSE <<CDivExact(CAdd(CMul(rows[2][2], b[1]), CNeg(CMul(rows[1][2], b[2]))), d),
              CDivExact(CAdd(CMul(rows[1][1], b[2]), CNeg(CMul(rows[2][1], b[1]))), d)>>

\* solver_interface(mat): splu or PardisoInterface
Factorize(mat, backend) ==
    IF Det(mat.v) = CZero THEN Raise("RuntimeError: Factor is exactly singular")
    ELSE Ok([mat |-> mat.v, dt |-> mat.dt, backend |-> backend])

\* solver.solve(rhs)
FactorSolve(fact, rhs) ==
    IF KernelLeak(fact.dt, rhs)
    THEN ARaise("TypeError: Cannot cast array data from complex to real", TRUE)
    ELSE IF Len(rhs.v) # Len(fact.mat)
         THEN ARaise("ValueError: right-hand side has the wrong length", FALSE)
         ELSE AOk(Vec(ResultType(fact.dt, rhs.dt), ExactSolve(fact.mat, rhs.v)), FALSE)

\* mat_hermitian * x
HermitianTimes(mh, r0) ==
    Let(r0, LAMBDA r :
        IF r.st # "ok" THEN r
        ELSE IF Len(r.val.v) # mh.shape[2]
             THEN ARaise("ValueError: dimension mismatch", r.leak)
             ELSE AOk(Vec(ResultType(mh.dt, r.val.dt), MatVec(mh.v, r.val.v)), r.leak))

\* A _solve_fun that multiplies by mat_hermitian first whatever the shape
\* (the thin closure used for the thick case as well).
SolveFunHermitianFirst(sv, rhs) ==
    IF sv.solve_fun = "square" THEN FactorSolve(sv.fact, rhs)
    ELSE Let(HermitianTimes(sv.mat_hermitian, AOk(rhs, FALSE)), LAMBDA y :
             IF y.st # "ok" THEN y ELSE FactorSolve(sv.fact, y.val))

\* self._solve_fun(rhs)
SolveFun(sv, rhs) ==
    CASE sv.solve_fun = "square" -> FactorSolve(sv.fact, rhs)
      [] sv.solve_fun = "thin" ->
            Let(HermitianTimes(sv.mat_hermitian, AOk(rhs, FALSE)), LAMBDA y :
                IF y.st # "ok" THEN y ELSE FactorSolve(sv.fact, y.val))
      [] OTHER -> HermitianTimes(sv.mat_hermitian, FactorSolve(sv.fact, rhs))

\* _Solver.solve
SolverSolve(sv, rhs) ==
    IF sv.dtype = "float64" /\ IsComplexObj(rhs)
    THEN Recombine(SolveFun(sv, VReal(rhs)), SolveFun(sv, VImag(rhs)))
    ELSE SolveFun(sv, rhs)

\* _Solver.__init__ on the matrix it extracted
SolverInit(mat, pardiso) ==
    LET backend == IF pardiso THEN "pardiso" ELSE "splu"
        mh == ArrT(ArrConj(mat))
        target == IF mat.shape[1] = mat.shape[2] THEN mat
                  ELSE IF mat.shape[1] > mat.shape[2]
                       THEN SparseMatmul(mh, mat).val
                       ELSE SparseMatmul(mat, mh).val
    IN Let(Factorize(target, backend), LAMBDA f :
           IF f.st # "ok" THEN Raise(f.err)
           ELSE Ok([solve_fun |-> IF mat.shape[1] = mat.shape[2] THEN "square"
                                  ELSE IF mat.shape[1] > mat.shape[2] THEN "thin" ELSE "thick",
                    fact |-> f.val,
                    mat_hermitian |-> IF mat.shape[1] = mat.shape[2] THEN None ELSE mh,
                    shape |-> <<mat.shape[2], mat.shape[1]>>,
                    dtype |-> mat.dt]))

\* InverseSparseDiscreteBoundaryOperator(operator): arg.ref is the heap
\* index of an operator object, or 0 with arg.raw a raw matrix.
InverseSparseDiscreteBoundaryOperator(h, arg, pardiso) ==
    IF (arg.ref > 0 /\ h[arg.ref].kind # "Sparse") \/ (arg.ref = 0 /\ arg.raw.cls # "csc")
    THEN Fail(h, "ValueError: op must be either of type SparseDiscreteBoundaryOperator or of type csc_matrix")
    ELSE Let(SolverInit(IF arg.ref > 0 THEN h[arg.ref].impl ELSE arg.raw, pardiso),
             LAMBDA sv :
                 IF sv.st # "ok" THEN Fail(h, sv.err)
                 ELSE Alloc(h, Node("Inverse", sv.val.dtype, sv.val.shape, sv.val,
                                    arg.ref, 0, None, arg.raw)))

(***************************************************************************)
(* scipy's LinearOperator.matvec (the public entry, with its shape checks) *)
(* around each class's _matvec, and _rmatvec for the adjoint wrappers.     *)
(***************************************************************************)
OrLeak(r0, leak) == Let(r0, LAMBDA r : [r EXCEPT !.leak = r.leak \/ leak])
MapVal(r0, F(_)) == Let(r0, LAMBDA r : IF r.st = "ok" THEN AOk(F(r.val), r.leak) ELSE r)

RECURSIVE MatvecPub(_, _, _)
RECURSIVE MatvecPriv(_, _, _)
RECURSIVE RMatvecPriv(_, _, _)

MatvecPub(h, i, x0) ==
    Let(x0, LAMBDA x :
        IF Len(x.v) # h[i].shape[2] THEN ARaise("ValueError: dimension mismatch", FALSE)
        ELSE Let(MatvecPriv(h, i, x), LAMBDA y :
                 IF y.st = "ok" /\ Len(y.val.v) # h[i].shape[1]
                 THEN ARaise("ValueError: cannot reshape array", y.leak)
                 ELSE y))

MatvecPriv(h, i, x) ==
    LET n == h[i]
    IN CASE n.kind = "Dense" -> DenseMatvec(n, x)
         [] n.kind = "Sparse" -> SparseMatvec(n, x)
         [] n.kind = "Diagonal" -> DiagonalMatvec(n, x)
         [] n.kind = "Zero" -> ZeroMatvec(n, x)
         [] n.kind = "RankOne" -> RankOneMatvec(n, x)
         [] n.kind = "Generic" -> GenericMatvec(n, x)
         [] n.kind = "Inverse" -> SolverSolve(n.impl, x)
         [] n.kind = "Scaled" ->
               MapVal(MatvecPub(h, n.op1, x), LAMBDA y : ArrScalePy(y, n.alpha))
         [] n.kind = "Sum" ->
               Let(MatvecPub(h, n.op1, x), LAMBDA a :
                   IF a.st # "ok" THEN a
                   ELSE Let(MatvecPub(h, n.op2, x), LAMBDA b :
                       IF b.st # "ok" THEN OrLeak(b, a.leak)
                       ELSE ALift(NumpyAdd(a.val, b.val), a.leak \/ b.leak)))
         [] n.kind = "Product" ->
               Let(MatvecPub(h, n.op2, x), LAMBDA b :
                   IF b.st # "ok" THEN b
                   ELSE OrLeak(MatvecPub(h, n.op1, b.val), b.leak))
         [] n.kind = "ScipyH" -> RMatvecPriv(h, n.op1, x)
         [] OTHER -> MapVal(RMatvecPriv(h, n.op1, VConj(x)), VConj)

RMatvecPriv(h, i, x) ==
    LET n == h[i]
    IN CASE n.kind = "RankOne" ->
               RankOneMatvec(DiscreteRankOneOperator(ArrConj(n.row), ArrConj(n.impl)), x)
         [] n.kind \in {"Dense", "Diagonal", "Sparse"} ->
               Let(OpAdjoint(h, i), LAMBDA a : MatvecPub(a.h, a.ref, x))
         [] n.kind = "ScipyT" -> MapVal(MatvecPriv(h, n.op1, VConj(x)), VConj)
         [] n.kind = "ScipyH" -> MatvecPriv(h, n.op1, x)
         [] OTHER -> ARaise("NotImplementedError", FALSE)

\* operator @ X for a 2-D array X: matvec on each column
Matmat(h, i, X) ==
    IF X.shape[1] # h[i].shape[2] THEN ARaise("ValueError: dimension mismatch", FALSE)
    ELSE Let([j \in 1..X.shape[2] |-> MatvecPub(h, i, Vec(X.dt, Col(X.v, j)))],
             LAMBDA rs :
                 LET k == X.shape[2]
                     bad == {j \in 1..k : rs[j].st # "ok"}
                     leak == \E j \in 1..k : rs[j].leak
                 IN IF bad # {}
                    THEN ARaise(rs[CHOOSE j \in bad : \A l \in bad : j <= l].err, leak)
                    ELSE AOk(Arr("ndarray", rs[1].val.dt, <<h[i].shape[1], k>>,
                                 [r \in 1..h[i].shape[1] |->
                                     [j \in 1..k |-> rs[j].val.v[r]]]), leak))

(***************************************************************************)
(* Dense materialisation: the A attribute of each class, and as_matrix.    *)
(***************************************************************************)
\* _get_dense(A, B), then the arithmetic the caller does on the pair
GetDense(a, b) ==
    IF ~IsNdarray(a) /\ ~IsNdarray(b) THEN Ok(<<a, b>>)
    ELSE IF (~IsNdarray(a) /\ a.cls # "csc") \/ (~IsNdarray(b) /\ b.cls # "csc")
         THEN Raise("AttributeError: object has no attribute todense")
         ELSE Ok(<<IF IsNdarray(a) THEN a ELSE ToDenseMatrix(a),
                   IF IsNdarray(b) THEN b ELSE ToDenseMatrix(b)>>)

PlusA(p) ==
    IF IsNdarray(p[1]) THEN NumpyAdd(p[1], p[2])
    ELSE IF p[1].cls = "csc" /\ p[2].cls = "csc" THEN SparseAdd(p[1], p[2])
    ELSE Raise("TypeError: unsupported operand type(s) for +")

MatmulA(p) ==
    IF IsNdarray(p[1]) THEN NumpyMatmul(p[1], p[2])
    ELSE IF p[1].cls = "csc" /\ p[2].cls = "csc" THEN SparseMatmul(p[1], p[2])
    ELSE Raise("TypeError: unsupported operand type(s) for @")

\* res1, res2 = _get_dense(self._op1.A, self._op2.A); return res1 <op> res2
BinaryA(a0, b0, F(_)) ==
    Let(a0, LAMBDA a :
        IF a.st # "ok" THEN a
        ELSE Let(b0, LAMBDA b :
            IF b.st # "ok" THEN b
            ELSE Let(GetDense(a.val, b.val), LAMBDA p :
                     IF p.st # "ok" THEN p ELSE F(p.val))))

RECURSIVE PropA(_, _)
\* h[i].A
PropA(h, i) ==
    LET n == h[i]
    IN CASE n.kind \in {"Dense", "Sparse", "Diagonal"} -> Ok(n.impl)
         [] n.kind = "Zero" ->
               Ok(Arr("csc", "float64", n.shape,
                      [r \in 1..n.shape[1] |-> [c \in 1..n.shape[2] |-> CZero]]))
         [] n.kind = "RankOne" ->
               Ok(Arr("ndarray", ResultType(n.impl.dt, n.row.dt), n.shape,
                      [r \in 1..n.shape[1] |-> [c \in 1..n.shape[2] |->
                          CMul(n.impl.v[r], n.row.v[c])]]))
         [] n.kind = "Generic" ->
               Let(Matmat(h, i, Eye(n.shape[2])), LAMBDA y :
                   IF y.st = "ok" THEN Ok(y.val) ELSE Raise(y.err))
         [] n.kind = "Inverse" -> Ok(BoundMethod)
         [] n.kind = "Scaled" ->
               Let(PropA(h, n.op1), LAMBDA a :
                   IF a.st # "ok" THEN a
                   ELSE IF a.val.cls \in {"method", "operator"}
                        THEN Raise("TypeError: unsupported operand type(s) for *")
                        ELSE Ok(ArrScalePy(a.val, n.alpha)))
         [] n.kind = "Sum" ->
               BinaryA(PropA(h, n.op1), PropA(h, n.op2), PlusA)
         [] n.kind = "Product" ->
               BinaryA(PropA(h, n.op1), PropA(h, n.op2), MatmulA)
         [] OTHER -> Ok(Arr("operator", h[n.op1].dtype, h[n.op1].shape, <<>>))

\* as_matrix(operator): every class here has an attribute A
as_matrix(h, i) == PropA(h, i)

(***************************************************************************)
(* What an operation leaves behind in the objects it was called on: no     *)
(* _matvec, _matmat, A or solve assigns to an attribute, and solve never   *)
(* calls solver_interface; _Solver.__init__ calls it once in each branch.  *)
(***************************************************************************)
\* A _matvec that stores the promoted dtype back into the operator.
AfterApplyPromoting(h, i) == [h EXCEPT ![i].dtype = "complex128"]
\* A solve that factorizes again.
FactAfterSolveAgain(nf, i) == [nf EXCEPT ![i] = @ + 1]

AfterApply(h, i) == h
AfterAsMatrix(h, i) == h
FactAfterSolve(nf, i) == nf
FactorizationCalls(mat) == 1

(***************************************************************************)
(* Sample data handed in by the caller.                                    *)
(***************************************************************************)
R(a) == <<a, 0>>
RealRows(rows) == [i \in 1..Len(rows) |-> [j \in 1..Len(rows[i]) |-> R(rows[i][j])]]
RealVec(v) == [j \in 1..Len(v) |-> R(v[j])]

MatA == RealRows(<<<<1, 2>>, <<0, 1>>>>)
MatB == RealRows(<<<<2, 1>>, <<1, 1>>>>)
MatC == <<<<R(1), CI>>, <<R(0), R(1)>>>>
MatRow == RealRows(<<<<1, 2>>>>)
MatTall == RealRows(<<<<1>>, <<0>>>>)

DenseLeaves ==
    {DenseDiscreteBoundaryOperator(NDArray("float32", MatA)),
     DenseDiscreteBoundaryOperator(NDArray("float64", MatRow)),
     DenseDiscreteBoundaryOperator(NDArray("complex64", MatC))}
SparseLeaves ==
    {SparseDiscreteBoundaryOperator(Csc("float32", MatB)),
     SparseDiscreteBoundaryOperator(Csc("float64", MatA)),
     SparseDiscreteBoundaryOperator(Csc("complex128", MatC)),
     SparseDiscreteBoundaryOperator(Csc("float64", MatTall))}
DiagonalLeaves ==
    {DiagonalOperator(Vec("float32", RealVec(<<2, 3>>)), <<>>),
     DiagonalOperator(Vec("float64", RealVec(<<1, 2>>)), <<1, 2>>)}
OtherLeaves ==
    {ZeroDiscreteBoundaryOperator(2, 2),
     DiscreteRankOneOperator(Vec("complex128", <<CI, R(1)>>), Vec("float64", RealVec(<<3, 4>>))),
     GenericDiscreteBoundaryOperator(Arr("evaluator", "float32", <<2, 2>>, MatB))}
Leaves == DenseLeaves \cup SparseLeaves \cup DiagonalLeaves \cup OtherLeaves

RawMatrices == {Csc("float64", MatA), NDArray("float64", MatA)}

Scalars == {PyScalar("float", R(2)), PyScalar("complex", CI)}

Vectors ==
    {Vec("float64", RealVec(<<1, 0>>)),
     Vec("complex128", <<<<1, 1>>, R(2)>>),
     Vec("float64", RealVec(<<3>>))}

(***************************************************************************)
(* The state machine: a caller holding the operators ops calls one         *)
(* operation at a time; out is what the call returned or raised.           *)
(***************************************************************************)
Out(op, a, b, st, ref, val, err, leak, src) ==
    [op |-> op, a |-> a, b |-> b, st |-> st, ref |-> ref, val |-> val,
     err |-> err, leak |-> leak, src |-> src]

Init ==
    /\ ops \in {<<a>> : a \in Leaves} \cup {<<a, b>> : a \in Leaves, b \in Leaves}
    /\ nfact = [k \in DOMAIN ops |-> 0]
    /\ out = Out("init", 0, 0, "ok", 0, None, "", FALSE, None)
    /\ has_pardiso \in BOOLEAN

Discrete == {i \in DOMAIN ops : IsDiscrete(ops[i])}

\* the caller stops combining once the heap holds cap objects
Room(cap) == Len(ops) < cap

\* the call returned r: the new operator, if any, joins the heap
Returned(op, a, b, r, nf) ==
    /\ ops' = r.h
    /\ nfact' = IF Len(r.h) > Len(ops) THEN Append(nfact, nf) ELSE nfact
    /\ out' = Out(op, a, b, r.st, r.ref, None, r.err, FALSE, None)
    /\ UNCHANGED has_pardiso

Add(cap) ==
    /\ Room(cap)
    /\ \E i \in Discrete, j \in Discrete : \E r \in {OpAdd(ops, i, j)} :
           Returned("add", i, j, r, 0)

Neg(cap) ==
    /\ Room(cap)
    /\ \E i \in Discrete : \E r \in {OpNeg(ops, i)} : Returned("neg", i, 0, r, 0)

Sub(cap) ==
    /\ Room(cap)
    /\ \E i \in Discrete, j \in Discrete : \E r \in {OpSub(ops, i, j)} :
           Returned("sub", i, j, r, 0)

Dot(cap) ==
    /\ Room(cap)
    /\ \E i \in Discrete, j \in Discrete : \E r \in {OpDot(ops, i, j)} :
           Returned("dot", i, j, r, 0)

Mul(cap) ==
    /\ Room(cap)
    /\ \E i \in Discrete, j \in Discrete : \E r \in {OpMul(ops, i, j)} :
           Returned("mul", i, j, r, 0)

DotScalar(cap) ==
    /\ Room(cap)
    /\ \E i \in Discrete, alpha \in Scalars : \E r \in {OpDotScalar(ops, i, alpha)} :
           Returned("dot_scalar", i, alpha, r, 0)

RMul(cap) ==
    /\ Room(cap)
    /\ \E i \in Discrete, alpha \in Scalars : \E r \in {OpRMul(ops, i, alpha)} :
           Returned("rmul", i, alpha, r, 0)

Transpose(cap) ==
    /\ Room(cap)
    /\ \E i \in DOMAIN ops : \E r \in {OpTranspose(ops, i)} :
           Returned("transpose", i, 0, r, 0)

Adjoint(cap) ==
    /\ Room(cap)
    /\ \E i \in DOMAIN ops : \E r \in {OpAdjoint(ops, i)} :
           Returned("adjoint", i, 0, r, 0)

NewInverse(cap) ==
    /\ Room(cap)
    /\ \E arg \in {[ref |-> i, raw |-> None] : i \in Discrete}
                  \cup {[ref |-> 0, raw |-> m] : m \in RawMatrices} :
           \E r \in {InverseSparseDiscreteBoundaryOperator(ops, arg, has_pardiso)} :
               Returned("inverse", arg.ref, arg.raw, r, FactorizationCalls(arg))

\* operator @ x
ApplyTo(i, x, src) ==
    \E r \in {MatvecPub(ops, i, x)} :
       /\ ops' = AfterApply(ops, i)
       /\ nfact' = FactAfterSolve(nfact, i)
       /\ out' = Out("apply", i, x, r.st, 0, r.val, r.err, r.leak, src)
       /\ UNCHANGED has_pardiso

Apply == \E i \in DOMAIN ops, x \in Vectors : ApplyTo(i, x, None)

\* operator @ y, y the vector the previous apply returned from a caller's x
ApplyOut ==
    /\ out.op = "apply" /\ out.st = "ok" /\ out.src = None
    /\ \E i \in DOMAIN ops : ApplyTo(i, out.val, [i |-> out.a, x |-> out.b])

AsMatrix ==
    \E i \in DOMAIN ops : \E r \in {as_matrix(ops, i)} :
           /\ ops' = AfterAsMatrix(ops, i)
           /\ out' = Out("as_matrix", i, 0, r.st, 0, r.val, r.err, FALSE, None)
           /\ UNCHANGED <<nfact, has_pardiso>>

Next ==
    \/ Add(MaxOps) \/ Neg(MaxOps) \/ Sub(MaxOps) \/ Dot(MaxOps) \/ Mul(MaxOps)
    \/ DotScalar(MaxOps) \/ RMul(MaxOps) \/ Transpose(MaxOps) \/ Adjoint(MaxOps)
    \/ NewInverse(MaxOps) \/ Apply \/ AsMatrix

Spec == Init /\ [][Next]_vars

\* The same caller on a smaller heap.
NextDag ==
    \/ Add(MaxDag) \/ Neg(MaxDag) \/ Sub(MaxDag) \/ Dot(MaxDag) \/ Mul(MaxDag)
    \/ DotScalar(MaxDag) \/ RMul(MaxDag) \/ Transpose(MaxDag) \/ Adjoint(MaxDag)
    \/ NewInverse(MaxDag) \/ Apply \/ AsMatrix

SpecDag == Init /\ [][NextDag]_vars

\* A caller that wraps one sparse matrix, inverts it (or a raw matrix) and
\* applies the operators, also to the vector the previous apply returned.
MatWide == RealRows(<<<<1, 0>>>>)
MatWideC == <<<<CI, R(0)>>>>
InverseLeaves ==
    SparseLeaves \cup {SparseDiscreteBoundaryOperator(Csc("float64", MatWide)),
                       SparseDiscreteBoundaryOperator(Csc("complex128", MatWideC))}

InitInv ==
    /\ ops \in {<<a>> : a \in InverseLeaves}
    /\ nfact = [k \in DOMAIN ops |-> 0]
    /\ out = Out("init", 0, 0, "ok", 0, None, "", FALSE, None)
    /\ has_pardiso \in BOOLEAN

NextInv == NewInverse(MaxInv) \/ Apply \/ ApplyOut \/ AsMatrix

SpecInv == InitInv /\ [][NextInv]_vars

(***************************************************************************)
(* Properties.                                                             *)
(***************************************************************************)
Combinators == {"add", "neg", "dot", "mul", "dot_scalar", "rmul"}
Composite == {"Sum", "Scaled", "Product"}
Swap(s) == <<s[2], s[1]>>
VecSub(a, b) == [k \in 1..Len(a) |-> CAdd(a[k], CNeg(b[k]))]
\* the error messages that name the two shapes
NamesBothShapes(e) ==
    e \in {"ValueError: Operators have incompatible shapes s1 != s2",
           "ValueError: Incompatible dimensions shapes for multiplication with s1 and s2",
           "ValueError: Incompatible dimensions: s1 != s2",
           "ValueError: operands could not be broadcast together with shapes",
           "ValueError: shapes not aligned (both shapes named)"}

\* C1: for two operators A, B of equal shape, A - B returns a new operator
\* without raising, and (A - B) @ x = A @ x - B @ x for every x of length
\* cols.
C1_SubtractionReturnsDifference ==
    (out.op = "sub" /\ ops[out.a].shape = ops[out.b].shape) =>
        /\ out.st = "ok"
        /\ \A x \in Vectors :
              Len(x.v) = ops[out.a].shape[2] =>
                  LET d == MatvecPub(ops, out.ref, x)
                      a == MatvecPub(ops, out.a, x)
                      b == MatvecPub(ops, out.b, x)
                  IN (a.st = "ok" /\ b.st = "ok") =>
                         d.st = "ok" /\ d.val.v = VecSub(a.val.v, b.val.v)

\* C2: A + B with A.shape # B.shape, and A.dot(B) / A * B with
\* A.cols # B.rows, raise when the combinator is called, with an error
\* that names both shapes; no operator is returned.
C2_MismatchRaisesAtCall ==
    /\ (out.op = "add" /\ ops[out.a].shape # ops[out.b].shape) =>
           out.st = "raise" /\ NamesBothShapes(out.err)
    /\ (out.op \in {"dot", "mul"} /\ ops[out.a].shape[2] # ops[out.b].shape[1]) =>
           out.st = "raise" /\ NamesBothShapes(out.err)

\* C3: as_matrix(A) is a 2-D matrix of shape (rows, cols) whose columns are
\* A applied to the columns of the identity of size cols.
C3_AsMatrixIsProbedMatrix ==
    (out.op = "as_matrix" /\ IsDiscrete(ops[out.a])) =>
        /\ out.st = "ok"
        /\ out.val.cls \in {"ndarray", "matrix", "csc"}
        /\ NDim(out.val) = 2
        /\ out.val.shape = ops[out.a].shape
        /\ LET p == Matmat(ops, out.a, Eye(ops[out.a].shape[2]))
           IN p.st = "ok" /\ out.val.v = p.val.v

\* C4: an operator of dtype float32 or complex64 scaled by a Python scalar,
\* from either side, has dtype float32 or complex64.
C4_ScalingKeepsNarrowPrecision ==
    (out.op \in {"dot_scalar", "rmul"} /\ ops[out.a].dtype \in {"float32", "complex64"}) =>
        out.st = "ok" /\ ops[out.ref].dtype \in {"float32", "complex64"}

\* C5: transpose(A) and adjoint(A) of an operator of shape (m, n) have
\* shape (n, m).
C5_TransposeSwapsShape ==
    (out.op \in {"transpose", "adjoint"} /\ IsDiscrete(ops[out.a])) =>
        out.st = "ok" /\ ops[out.ref].shape = Swap(ops[out.a].shape)

\* C6: a Dense, Sparse, Generic or Inverse operator of real dtype applied
\* to a complex x of length cols returns without raising and never hands
\* its real kernel a complex vector.
C6_RealKernelGetsRealParts ==
    (/\ out.op = "apply"
     /\ ops[out.a].kind \in {"Dense", "Sparse", "Generic", "Inverse"}
     /\ ~IsComplexDType(ops[out.a].dtype)
     /\ IsComplexObj(out.b)
     /\ Len(out.b.v) = ops[out.a].shape[2]) =>
        out.st = "ok" /\ ~out.leak

\* The inverse ops[k] was built from the square sparse operator ops[i], given
\* as the wrapper or as its raw matrix.
InverseOf(k, i) ==
    /\ ops[k].kind = "Inverse" /\ ops[i].kind = "Sparse"
    /\ ops[i].shape[1] = ops[i].shape[2]
    /\ \/ ops[k].op1 = i
       \/ ops[k].op1 = 0 /\ ops[k].row = ops[i].impl

\* C7: for a square invertible sparse M and the inverse Minv built from it,
\* Minv @ (M @ x) = x for every x of length n.
C7_InverseRoundTrip ==
    (/\ out.op = "apply" /\ out.src # None
     /\ InverseOf(out.a, out.src.i)) =>
        out.st = "ok" /\ out.val.v = out.src.x.v

\* C8: every inverse operator was factorized exactly once, and no step
\* factorizes it again or changes its stored solver (factorization, solve
\* closure, Hermitian factor).
C8_FactorizedOnce ==
    [][/\ \A i \in DOMAIN ops' : ops'[i].kind = "Inverse" => nfact'[i] = 1
       /\ \A i \in DOMAIN ops :
              ops[i].kind = "Inverse" => nfact'[i] = nfact[i] /\ ops'[i].impl = ops[i].impl]_vars

\* a second solve on a float64 inverse, with a complex right-hand side that
\* solve splits into real and imaginary parts
C8_Witness ==
    /\ out.op = "apply" /\ out.src # None /\ out.st = "ok"
    /\ ops[out.a].kind = "Inverse" /\ ops[out.a].dtype = "float64"
    /\ ops[out.src.i].kind = "Inverse"
    /\ IsComplexObj(out.b)
    /\ nfact[out.a] = 1

\* The operand classes for which a combinator computes a matrix at once.
Eager(op, ka, kb) ==
    CASE op = "add" -> ka = kb /\ ka \in {"Dense", "Sparse", "Diagonal"}
      [] op = "dot" -> ka = "Dense" /\ kb = "Dense"
      [] op = "mul" -> ka = kb /\ ka \in {"Dense", "Sparse"}
      [] OTHER -> ka \in {"Dense", "Sparse", "Diagonal"}

LazyKind(op) ==
    CASE op = "add" -> "Sum"
      [] op \in {"dot", "mul"} -> "Product"
      [] OTHER -> "Scaled"

OperandKind(x) == IF out.op \in {"add", "dot", "mul"} THEN ops[x].kind ELSE ""

SourceMatrix(k) == IF ops[k].op1 > 0 THEN ops[ops[k].op1].impl ELSE ops[k].row
\* conjugate transpose of a matrix given by its rows
HermitianOf(rows) ==
    [j \in 1..Len(rows[1]) |-> [i \in 1..Len(rows) |-> CConj(rows[i][j])]]
\* M^-1 b, (M^H M)^-1 (M^H b) or M^H ((M M^H)^-1 b), by the shape of M
ByShape(M, b) ==
    LET mh == HermitianOf(M.v)
    IN IF M.shape[1] = M.shape[2] THEN ExactSolve(M.v, b)
       ELSE IF M.shape[1] > M.shape[2]
            THEN ExactSolve(MatMat(mh, M.v), MatVec(mh, b))
            ELSE MatVec(mh, ExactSolve(MatMat(M.v, mh), b))

====
